---- MODULE Spec2Model ----
(***************************************************************************)
(* A model of the Google C++ style VS Code extension:                      *)
(*   - src/src/extension.ts : previewAndApplyFixes, posFromOffset          *)
(*   - src/unnamed/part_000 : toLowerSnake, toPascalCase, inferTargetName, *)
(*     parseNamingDiagnostics, the rename loop of fixCurrentFileGoogleStyle*)
(*     ensureStandardIncludes, fixFilesGoogleStyle with runTool,           *)
(*     fixWorkspaceGoogleStyle with collectCppFiles                        *)
(*   - the guards of the current-file commands of both files               *)
(* Strings of the program are TLA+ strings; a character is a string of     *)
(* length one, read with At.                                               *)
(***************************************************************************)
EXTENDS Integers, Sequences, FiniteSets, TLC

VARIABLES
  \* ---- previewAndApplyFixes (extension.ts 197-231)
  docText,    \* the text of the target document
  origText,   \* history: the text when the command started
  fixes,      \* what reading and parsing the fixes YAML file gives
  fpc,        \* position in previewAndApplyFixes
  reps,       \* the local array reps
  choice,     \* what showQuickPick returned
  edit,       \* the WorkspaceEdit: the replace operations in the order added
  ret,        \* what previewAndApplyFixes returned: "true", "false", "threw"
  \* ---- posFromOffset called on its own (extension.ts 233-239)
  posText, posOffset, posDone, posResult,
  \* ---- toPascalCase / toLowerSnake applied in turn (part_000 492-501)
  caseInput,  \* the string s
  caseStep,   \* how many conversions were applied
  caseValue,  \* the string after caseStep conversions
  casePascal, \* history: toPascalCase(s), the value after the first conversion
  \* ---- inferTargetName called on its own (part_000 509-538)
  inferKind, inferCurrent, inferDone, inferResult,
  \* ---- the rename loop of fixCurrentFileGoogleStyle (part_000 630-697)
  rnDoc,      \* the text of the live document
  rnOutput,   \* the lines clang-tidy printed in the diagnose run
  rnPc,       \* position: "diagnose", "loop", "done"
  rnDiags,    \* the array diags, once parsed, filtered and sorted
  rnIdx,      \* index in diags of the next diagnostic of the for loop
  rnSeen,     \* the set seen
  rnApplied,  \* the counter applied
  rnLog,      \* history: what each finished loop iteration did
  rnMessage,   \* the information message shown after the loop
  \* ---- ensureStandardIncludes (part_000 250-362)
  incLines,       \* history: the lines the document was made of
  incText,        \* originalText: the text of the document when opened
  incEol,         \* doc.eol as the characters it stands for
  incDoc,         \* the text of the document
  incPc,          \* position: "start", "applyEdit", "returned", "done"
  incNeeded,      \* the array needed, once sorted
  incInsertIndex, \* the local insertIndex
  incNewText,   \* the local newText
  \* ---- fixFilesGoogleStyle (part_000 366-456)
  wsFiles,    \* the argument files
  wsPc,       \* position: "start", "tidy", "includes", "format", "done", ...
  wsIdx,      \* the index in files (from 1) of the file of the for loop
  wsLog,      \* history: the steps started and ended, in order
  wsWarnings, \* the warning messages shown, in order
  wsMessage,   \* the last information or error message shown
  \* ---- fixWorkspaceGoogleStyle (part_000 458-484)
  wcFolders,   \* vscode.workspace.workspaceFolders, as their paths
  wcGlobs,     \* the setting fileGlobs
  wcPc,        \* position: "start", "collect", "fix", "returned"
  wcFolderIdx, \* the index (from 1) of the folder of the for loop
  wcAllFiles,  \* the local allFiles
  wcMessage,   \* the error message shown
  \* ---- formatCurrent, enforceStyleCurrent (extension.ts 115-177) and
  \* ---- fixCurrentFileGoogleStyle (part_000 604-738) as commands
  cmdName,      \* the command that was run
  cmdHasFolder, \* whether a workspace folder is open
  cmdLanguage,  \* languageId of the active document, "none" without an editor
  cmdDirty,     \* whether the active document has unsaved changes
  cmdPc,        \* position: "start", "format", "tidy", "diagnose", "returned", "threw"
  cmdMessage,   \* the last message shown
  cmdSaved,     \* whether the command saved the document
  cmdTools,     \* the external tools the command has run, in order
  cmdEdits      \* how many edits the command has applied

fixVars == <<docText, origText, fixes, fpc, reps, choice, edit, ret>>
posVars == <<posText, posOffset, posDone, posResult>>
caseVars == <<caseInput, caseStep, caseValue, casePascal>>
inferVars == <<inferKind, inferCurrent, inferDone, inferResult>>
rnVars ==
  <<rnDoc, rnOutput, rnPc, rnDiags, rnIdx, rnSeen, rnApplied, rnLog, rnMessage>>
incVars ==
  <<incLines, incText, incEol, incDoc, incPc, incNeeded, incInsertIndex, incNewText>>
wsVars == <<wsFiles, wsPc, wsIdx, wsLog, wsWarnings, wsMessage>>
wcVars == <<wcFolders, wcGlobs, wcPc, wcFolderIdx, wcAllFiles, wcMessage>>
cmdVars == <<cmdName, cmdHasFolder, cmdLanguage, cmdDirty, cmdPc, cmdMessage, cmdSaved, cmdTools, cmdEdits>>
vars == <<fixVars, posVars, caseVars, inferVars, rnVars, incVars, wsVars, wcVars, cmdVars>>

\* what the steps of one component leave alone: the other components
fixFrame == <<posVars, caseVars, inferVars, rnVars, incVars, wsVars, wcVars, cmdVars>>
posFrame == <<fixVars, caseVars, inferVars, rnVars, incVars, wsVars, wcVars, cmdVars>>
caseFrame == <<fixVars, posVars, inferVars, rnVars, incVars, wsVars, wcVars, cmdVars>>
inferFrame == <<fixVars, posVars, caseVars, rnVars, incVars, wsVars, wcVars, cmdVars>>
rnFrame == <<fixVars, posVars, caseVars, inferVars, incVars, wsVars, wcVars, cmdVars>>
incFrame == <<fixVars, posVars, caseVars, inferVars, rnVars, wsVars, wcVars, cmdVars>>
wsFrame == <<fixVars, posVars, caseVars, inferVars, rnVars, incVars, wcVars, cmdVars>>
wcFrame == <<fixVars, posVars, caseVars, inferVars, rnVars, incVars, wsVars, cmdVars>>
cmdFrame == <<fixVars, posVars, caseVars, inferVars, rnVars, incVars, wsVars, wcVars>>

NULL == "<null>"

\* ------------------------------------------------------------------ bounds
MaxLen == 2          \* longest document text of the fix flow
MaxDiags == 2        \* most entries of Diagnostics in the fixes record
MaxPosLen == 4       \* longest text given to posFromOffset on its own
MaxPosOffset == 7    \* largest offset given to posFromOffset on its own
MaxNameLen == 4      \* longest string given to the case conversions
MaxKindWords == 2    \* most words of a symbol kind given to inferTargetName
MaxTokens == 2       \* most identifiers in the document of the rename loop
MaxOutput == 2       \* most lines of clang-tidy output in the rename loop
MaxLines == 3        \* most lines of the document given to ensureStandardIncludes
MaxFiles == 2        \* most entries of the list given to fixFilesGoogleStyle
MaxFolders == 2      \* most workspace folders
MaxGlobs == 2        \* most entries of the setting fileGlobs

\* ------------------------------------------------------------------ strings
At(s, i) == SubSeq(s, i, i)

Max(a, b) == IF a >= b THEN a ELSE b
Min(a, b) == IF a <= b THEN a ELSE b

\* All strings over alphabet A of length at most n.
RECURSIVE StringsUpTo(_, _)
StringsUpTo(A, n) ==
  IF n = 0 THEN {""}
  ELSE LET S == StringsUpTo(A, n - 1) IN S \cup {s \o c : s \in S, c \in A}

TextAlphabet == {"a", "\n"}

\* ------------------------------------------------------------------ posFromOffset
\* extension.ts 233-239: the loop  for (i = 0; i < offset && i < text.length; i++)
\* with i counted from 0; At is 1-based.
RECURSIVE posLoop(_, _, _, _, _)
posLoop(text, offset, i, line, col) ==
  IF i < offset /\ i < Len(text)
  THEN IF At(text, i + 1) = "\n"
       THEN posLoop(text, offset, i + 1, line + 1, 0)
       ELSE posLoop(text, offset, i + 1, line, col + 1)
  ELSE [line |-> line, character |-> col]

\* the loop without its bound  i < text.length : charCodeAt past the end is
\* NaN, which is not 10, so the column keeps growing
posFromOffsetUnclamped(text, offset) ==
  LET p == posLoop(text, offset, 0, 0, 0)
  IN  [line |-> p.line, character |-> p.character + Max(0, offset - Len(text))]

posFromOffset(text, offset) == posLoop(text, offset, 0, 0, 0)

\* ------------------------------------------------------------------ the host document
\* vscode.Range / WorkspaceEdit.replace (extension.ts 228) take positions; the
\* host turns a position back into an offset of the text it is applied to:
\* the start of line pos.line plus pos.character, clamped to that line.
RECURSIVE lineStart(_, _, _)
lineStart(text, line, i) ==
  \* offset (0-based) of the first character of line `line`, scanning from i
  IF line = 0 THEN i
  ELSE IF i >= Len(text) THEN Len(text)
  ELSE IF At(text, i + 1) = "\n" THEN lineStart(text, line - 1, i + 1)
  ELSE lineStart(text, line, i + 1)

RECURSIVE lineEnd(_, _)
lineEnd(text, i) ==
  IF i >= Len(text) \/ At(text, i + 1) = "\n" THEN i ELSE lineEnd(text, i + 1)

offsetAt(text, pos) ==
  LET s == lineStart(text, pos.line, 0)
  IN  Min(s + pos.character, lineEnd(text, s))

\* One replace operation applied to a text.
applyOne(text, op) ==
  LET s == offsetAt(text, op.start)
      e == Max(s, offsetAt(text, op.end))
  IN  SubSeq(text, 1, s) \o op.text \o SubSeq(text, e + 1, Len(text))

\* The operations of a WorkspaceEdit applied one after another, in the order
\* they were added.
RECURSIVE applyInOrder(_, _)
applyInOrder(text, ops) ==
  IF ops = <<>> THEN text ELSE applyInOrder(applyOne(text, Head(ops)), Tail(ops))

\* ------------------------------------------------------------------ previewAndApplyFixes
\* extension.ts 194: type Replacement.  FilePath is kept as "does it resolve to
\* the target's fsPath" (205); ReplacementText may be missing (228: ?? '').
RepTexts == {NULL, "b"}

TargetReplacements(text) ==
  [FilePath : {"target"},
   Offset : 0..Len(text),
   Length : 0..(Len(text) + 1),
   ReplacementText : RepTexts]

OtherReplacement ==
  [FilePath |-> "other", Offset |-> 0, Length |-> 0, ReplacementText |-> NULL]

\* the replacements a fixes file written for `text` can hold: any range that
\* ends at most one character past the text, for the target or another file
ReplacementsFor(text) ==
  {r \in TargetReplacements(text) : r.Offset + r.Length <= Len(text) + 1}
    \cup {OtherReplacement}

\* extension.ts 195: one entry of Diagnostics; Replacements is optional.
DiagnosticsFor(text) ==
  {[hasReplacements |-> FALSE, Replacements |-> <<>>]} \cup
  {[hasReplacements |-> TRUE, Replacements |-> <<r>>] : r \in ReplacementsFor(text)}

RECURSIVE SeqsUpTo(_, _)
SeqsUpTo(S, n) ==
  IF n = 0 THEN {<<>>}
  ELSE LET T == SeqsUpTo(S, n - 1) IN T \cup {Append(t, x) : t \in T, x \in S}

\* what readFileSync + yaml.parse (198-199) can give
FixesFor(text) ==
  {[parsed |-> k, Diagnostics |-> <<>>] : k \in {"throws", "undefined", "noDiagnostics"}}
    \cup {[parsed |-> "ok", Diagnostics |-> ds] : ds \in SeqsUpTo(DiagnosticsFor(text), MaxDiags)}

\* extension.ts 202-207: flatten, keeping the replacements of the target file
RECURSIVE collectReps(_)
collectReps(ds) ==
  IF ds = <<>> THEN <<>>
  ELSE LET rs == IF Head(ds).hasReplacements THEN Head(ds).Replacements ELSE <<>>
       IN  SelectSeq(rs, LAMBDA r : r.FilePath = "target") \o collectReps(Tail(ds))

\* extension.ts 222: the comparator (a, b) => b.Offset - a.Offset
compareRepsAscending(a, b) == a.Offset - b.Offset
compareReps(a, b) == b.Offset - a.Offset

\* Array.prototype.sort is stable: x goes after every element that does not
\* compare greater than it.
RECURSIVE insertSorted(_, _)
insertSorted(sorted, x) ==
  IF sorted = <<>> THEN <<x>>
  ELSE IF compareReps(Head(sorted), x) <= 0
       THEN <<Head(sorted)>> \o insertSorted(Tail(sorted), x)
       ELSE <<x>> \o sorted

RECURSIVE sortReps(_)
sortReps(rs) ==
  IF rs = <<>> THEN <<>>
  ELSE insertSorted(sortReps(SubSeq(rs, 1, Len(rs) - 1)), rs[Len(rs)])

\* extension.ts 225-229: one replace operation per replacement, in array order
buildEdit(text, rs) ==
  [i \in 1..Len(rs) |->
     [start |-> posFromOffset(text, rs[i].Offset),
      end |-> posFromOffset(text, rs[i].Offset + rs[i].Length),
      text |-> IF rs[i].ReplacementText = NULL THEN "" ELSE rs[i].ReplacementText]]

\* the two replacements of "int x;": x -> y at offset 4, int -> long at offset 0
ExampleDoc == "int x;"
ExampleRepY ==
  [FilePath |-> "target", Offset |-> 4, Length |-> 1, ReplacementText |-> "y"]
ExampleRepLong ==
  [FilePath |-> "target", Offset |-> 0, Length |-> 3, ReplacementText |-> "long"]
ExampleFixes ==
  {[parsed |-> "ok",
    Diagnostics |-> <<[hasReplacements |-> TRUE, Replacements |-> <<a>>],
                      [hasReplacements |-> TRUE, Replacements |-> <<b>>]>>] :
     a, b \in {ExampleRepY, ExampleRepLong}}

FixInit ==
  /\ \/ /\ docText \in StringsUpTo(TextAlphabet, MaxLen)
        /\ fixes \in FixesFor(docText)
     \/ /\ docText = ExampleDoc
        /\ fixes \in ExampleFixes
  /\ origText = docText
  /\ fpc = "start"
  /\ reps = <<>>
  /\ choice = "none"
  /\ edit = <<>>
  /\ ret = "none"

\* extension.ts 198-208
ParseFixes ==
  /\ fpc = "start"
  /\ IF fixes.parsed = "throws"
     THEN /\ fpc' = "done" /\ ret' = "threw" /\ reps' = reps
     ELSE IF fixes.parsed # "ok"
     THEN /\ fpc' = "done" /\ ret' = "false" /\ reps' = reps
     ELSE LET rs == collectReps(fixes.Diagnostics)
          IN  /\ reps' = rs
              /\ IF Len(rs) = 0
                 THEN fpc' = "done" /\ ret' = "false"
                 ELSE fpc' = "prompt" /\ ret' = ret
  /\ UNCHANGED <<docText, origText, fixes, choice, edit>>
  /\ UNCHANGED fixFrame

\* a quick pick whose answer is not looked at: the edit is built and submitted
PickCancelIgnored ==
  /\ fpc = "prompt"
  /\ \E c \in {"dismiss", "cancel"} : choice' = c
  /\ reps' = sortReps(reps)
  /\ edit' = buildEdit(docText, reps')
  /\ fpc' = "submitted"
  /\ UNCHANGED <<docText, origText, fixes, ret>>
  /\ UNCHANGED fixFrame

\* extension.ts 212-219: the quick pick is dismissed or Cancel is picked
PickCancel ==
  /\ fpc = "prompt"
  /\ \E c \in {"dismiss", "cancel"} : choice' = c
  /\ fpc' = "done"
  /\ ret' = "false"
  /\ UNCHANGED <<docText, origText, fixes, reps, edit>>
  /\ UNCHANGED fixFrame

\* extension.ts 212-229: Apply is picked; reps is sorted in place and the edit built
PickApply ==
  /\ fpc = "prompt"
  /\ choice' = "apply"
  /\ reps' = sortReps(reps)
  /\ edit' = buildEdit(docText, reps')
  /\ fpc' = "submitted"
  /\ UNCHANGED <<docText, origText, fixes, ret>>
  /\ UNCHANGED fixFrame

\* extension.ts 230: vscode.workspace.applyEdit resolves to whether the host
\* applied the edit; the host's decision is not the extension's.
HostApplyEdit ==
  /\ fpc = "submitted"
  /\ \E ok \in BOOLEAN :
       /\ ret' = IF ok THEN "true" ELSE "false"
       /\ docText' = IF ok THEN applyInOrder(docText, edit) ELSE docText
  /\ fpc' = "done"
  /\ UNCHANGED <<origText, fixes, reps, choice, edit>>
  /\ UNCHANGED fixFrame

FixNext == ParseFixes \/ PickCancel \/ PickApply \/ HostApplyEdit

\* ------------------------------------------------------------------ posFromOffset alone
ExampleText == "ab\ncd"

PosInit ==
  /\ posText \in StringsUpTo(TextAlphabet, MaxPosLen) \cup {ExampleText}
  /\ posOffset \in 0..MaxPosOffset
  /\ posDone = FALSE
  /\ posResult = [line |-> 0, character |-> 0]

CallPosFromOffset ==
  /\ ~posDone
  /\ posDone' = TRUE
  /\ posResult' = posFromOffset(posText, posOffset)
  /\ UNCHANGED <<posText, posOffset>>
  /\ UNCHANGED posFrame

PosNext == CallPosFromOffset

\* ------------------------------------------------------------------ characters
LowerLetters == "abcdefghijklmnopqrstuvwxyz"
UpperLetters == "ABCDEFGHIJKLMNOPQRSTUVWXYZ"
Digits == "0123456789"

CharsOf(s) == {At(s, i) : i \in 1..Len(s)}

LowerSet == CharsOf(LowerLetters)
UpperSet == CharsOf(UpperLetters)
DigitSet == CharsOf(Digits)

IsLower(c) == c \in LowerSet                       \* [a-z]
IsUpper(c) == c \in UpperSet                       \* [A-Z]
IsDigit(c) == c \in DigitSet                       \* [0-9]

LowerOf == [c \in UpperSet |->
              At(LowerLetters, CHOOSE i \in 1..Len(UpperLetters) : At(UpperLetters, i) = c)]
UpperOf == [c \in LowerSet |->
              At(UpperLetters, CHOOSE i \in 1..Len(LowerLetters) : At(LowerLetters, i) = c)]

\* String.prototype.toLowerCase / toUpperCase on one character
toLowerChar(c) == IF IsUpper(c) THEN LowerOf[c] ELSE c

toUpperChar(c) == IF IsLower(c) THEN UpperOf[c] ELSE c

RECURSIVE toLowerCase(_)
toLowerCase(s) ==
  IF s = "" THEN "" ELSE toLowerChar(At(s, 1)) \o toLowerCase(SubSeq(s, 2, Len(s)))

\* ------------------------------------------------------------------ toLowerSnake
\* part_000 493: replace(/([a-z0-9])([A-Z])/g, '$1_$2'); a match consumes both
\* characters and the scan goes on after it
RECURSIVE splitLowerUpper(_)
splitLowerUpper(s) ==
  IF s = "" THEN ""
  ELSE IF /\ Len(s) >= 2
          /\ (IsLower(At(s, 1)) \/ IsDigit(At(s, 1)))
          /\ IsUpper(At(s, 2))
       THEN At(s, 1) \o "_" \o At(s, 2) \o splitLowerUpper(SubSeq(s, 3, Len(s)))
       ELSE At(s, 1) \o splitLowerUpper(SubSeq(s, 2, Len(s)))

\* part_000 493: replace(/([A-Z])([A-Z][a-z])/g, '$1_$2'); a match consumes
\* three characters
RECURSIVE splitAcronym(_)
splitAcronym(s) ==
  IF s = "" THEN ""
  ELSE IF /\ Len(s) >= 3
          /\ IsUpper(At(s, 1))
          /\ IsUpper(At(s, 2))
          /\ IsLower(At(s, 3))
       THEN At(s, 1) \o "_" \o SubSeq(s, 2, 3) \o splitAcronym(SubSeq(s, 4, Len(s)))
       ELSE At(s, 1) \o splitAcronym(SubSeq(s, 2, Len(s)))

SpaceChars == {" ", "\t", "\n", "\r"}              \* \s
SpaceOrHyphen == SpaceChars \cup {"-"}             \* [\s\-]
Separators == SpaceChars \cup {"-", "_"}           \* [_\s\-]

\* length of the longest prefix of s made of characters in C (in = TRUE) or
\* of characters not in C (in = FALSE)
RECURSIVE runLength(_, _, _)
runLength(s, C, in) ==
  IF s # "" /\ ((At(s, 1) \in C) = in)
  THEN 1 + runLength(SubSeq(s, 2, Len(s)), C, in)
  ELSE 0

\* part_000 494: replace(/[\s\-]+/g, '_')
RECURSIVE collapseSpaces(_)
collapseSpaces(s) ==
  IF s = "" THEN ""
  ELSE LET n == runLength(s, SpaceOrHyphen, TRUE)
       IN  IF n >= 1 THEN "_" \o collapseSpaces(SubSeq(s, n + 1, Len(s)))
           ELSE At(s, 1) \o collapseSpaces(SubSeq(s, 2, Len(s)))

\* part_000 494: replace(/__+/g, '_')
RECURSIVE collapseUnderscores(_)
collapseUnderscores(s) ==
  IF s = "" THEN ""
  ELSE LET n == runLength(s, {"_"}, TRUE)
       IN  IF n >= 2 THEN "_" \o collapseUnderscores(SubSeq(s, n + 1, Len(s)))
           ELSE At(s, 1) \o collapseUnderscores(SubSeq(s, 2, Len(s)))

\* toLowerSnake without the second replace of line 493
toLowerSnakeNoAcronym(s) ==
  toLowerCase(collapseUnderscores(collapseSpaces(splitLowerUpper(s))))

\* part_000 492-496
toLowerSnake(s) ==
  toLowerCase(collapseUnderscores(collapseSpaces(splitAcronym(splitLowerUpper(s)))))

\* ------------------------------------------------------------------ toPascalCase
\* part_000 499: s.split(/[_\s\-]+/).filter(Boolean): the maximal runs of
\* characters that are not separators
RECURSIVE splitParts(_)
splitParts(s) ==
  IF s = "" THEN <<>>
  ELSE LET n == runLength(s, Separators, TRUE)
       IN  IF n >= 1 THEN splitParts(SubSeq(s, n + 1, Len(s)))
           ELSE LET m == runLength(s, Separators, FALSE)
                IN  <<SubSeq(s, 1, m)>> \o splitParts(SubSeq(s, m + 1, Len(s)))

\* part_000 500: p.charAt(0).toUpperCase() + p.slice(1).toLowerCase()
capitalize(p) == toUpperChar(At(p, 1)) \o toLowerCase(SubSeq(p, 2, Len(p)))

RECURSIVE joinParts(_)
joinParts(ps) == IF ps = <<>> THEN "" ELSE Head(ps) \o joinParts(Tail(ps))

\* part_000 498-501
toPascalCase(s) ==
  LET parts == splitParts(s)
  IN  joinParts([i \in 1..Len(parts) |-> capitalize(parts[i])])

\* part_000 503-506
toLowerCamelFromSnake(s) ==
  LET pascal == toPascalCase(s)
  IN  IF Len(pascal) > 0
      THEN toLowerChar(At(pascal, 1)) \o SubSeq(pascal, 2, Len(pascal))
      ELSE pascal

\* ------------------------------------------------------------------ the conversions in turn
NameAlphabet == {"a", "B", "1", "_", " ", "-"}

CaseInit ==
  /\ caseInput \in StringsUpTo(NameAlphabet, MaxNameLen)
  /\ caseStep = 0
  /\ caseValue = caseInput
  /\ casePascal = ""

\* toPascalCase applied to the current value (first and third conversion)
ApplyToPascalCase ==
  /\ caseStep \in {0, 2}
  /\ caseValue' = toPascalCase(caseValue)
  /\ casePascal' = IF caseStep = 0 THEN caseValue' ELSE casePascal
  /\ caseStep' = caseStep + 1
  /\ UNCHANGED caseInput
  /\ UNCHANGED caseFrame

\* toLowerSnake applied to the current value (second conversion)
ApplyToLowerSnake ==
  /\ caseStep = 1
  /\ caseValue' = toLowerSnake(caseValue)
  /\ caseStep' = caseStep + 1
  /\ UNCHANGED <<caseInput, casePascal>>
  /\ UNCHANGED caseFrame

CaseNext == ApplyToPascalCase \/ ApplyToLowerSnake

\* ------------------------------------------------------------------ inferTargetName
\* String.prototype.includes
includes(s, w) ==
  \E i \in 1..(Len(s) - Len(w) + 1) : SubSeq(s, i, i + Len(w) - 1) = w

\* part_000 509-538 with the constant rule (519-525) before the type rule (514-516)
inferTargetNameConstantsFirst(kind, current) ==
  LET k == toLowerCase(kind)
      baseSnake == toLowerSnake(current)
      pascal == toPascalCase(baseSnake)
  IN  IF includes(k, "constant")
      THEN (IF Len(pascal) > 0 THEN "k" \o pascal ELSE "k")
      ELSE IF includes(k, "struct") \/ includes(k, "class") \/ includes(k, "type")
      THEN pascal
      ELSE IF includes(k, "function") \/ includes(k, "method")
      THEN pascal
      ELSE IF \/ includes(k, "variable") \/ includes(k, "parameter")
              \/ includes(k, "private member") \/ includes(k, "protected member")
              \/ includes(k, "namespace")
      THEN baseSnake
      ELSE NULL

\* part_000 509-538; NULL is the result null
inferTargetName(kind, current) ==
  LET k == toLowerCase(kind)
      baseSnake == toLowerSnake(current)
  IN  IF includes(k, "struct") \/ includes(k, "class") \/ includes(k, "type")
      THEN toPascalCase(baseSnake)
      ELSE IF \/ includes(k, "enum constant") \/ includes(k, "global constant")
              \/ includes(k, "static constant") \/ includes(k, "constant")
      THEN LET pascal == toPascalCase(baseSnake)
           IN  IF Len(pascal) > 0
               THEN "k" \o At(pascal, 1) \o SubSeq(pascal, 2, Len(pascal))
               ELSE "k"
      ELSE IF includes(k, "function") \/ includes(k, "method")
      THEN toPascalCase(baseSnake)
      ELSE IF \/ includes(k, "variable") \/ includes(k, "parameter")
              \/ includes(k, "private member") \/ includes(k, "protected member")
              \/ includes(k, "global variable") \/ includes(k, "namespace")
      THEN baseSnake
      ELSE NULL

\* words of the symbol kinds clang-tidy's readability-identifier-naming
\* reports ("class constant", "private member", "global function", ...), one
\* of them capitalised
KindWords ==
  {"struct", "class", "type", "typedef", "enum", "constant", "Constant",
   "global", "static", "function", "method", "variable", "parameter",
   "private", "protected", "member", "namespace", "macro"}

RECURSIVE joinWords(_)
joinWords(ws) ==
  IF ws = <<>> THEN ""
  ELSE IF Len(ws) = 1 THEN ws[1]
  ELSE ws[1] \o " " \o joinWords(Tail(ws))

Kinds == {joinWords(ws) : ws \in SeqsUpTo(KindWords, MaxKindWords)}

Currents == {"max_size", "ValueCount", "my_type", "HTTPServer", "x", "_"}

InferInit ==
  /\ inferKind \in Kinds
  /\ inferCurrent \in Currents
  /\ inferDone = FALSE
  /\ inferResult = NULL

CallInferTargetName ==
  /\ ~inferDone
  /\ inferDone' = TRUE
  /\ inferResult' = inferTargetName(inferKind, inferCurrent)
  /\ UNCHANGED <<inferKind, inferCurrent>>
  /\ UNCHANGED inferFrame

InferNext == CallInferTargetName

\* ------------------------------------------------------------------ the live document
WordChars == LowerSet \cup UpperSet \cup DigitSet \cup {"_"}

IsWordChar(c) == c \in WordChars

\* offsets (0-based, between characters) of the word run around offset o
RECURSIVE wordStart(_, _)
wordStart(text, o) ==
  IF o > 0 /\ IsWordChar(At(text, o)) THEN wordStart(text, o - 1) ELSE o

RECURSIVE wordEnd(_, _)
wordEnd(text, o) ==
  IF o < Len(text) /\ IsWordChar(At(text, o + 1)) THEN wordEnd(text, o + 1) ELSE o

\* part_000 660: document.getWordRangeAtPosition(pos) || new Range(pos,
\* pos.translate(0, 1)); the range as offsets, found = FALSE for the fallback
rangeAtPosition(text, pos) ==
  LET o == offsetAt(text, pos)
      s == wordStart(text, o)
      e == wordEnd(text, o)
  IN  IF s < e
      THEN [found |-> TRUE, start |-> s, end |-> e]
      ELSE [found |-> FALSE, start |-> o,
            end |-> offsetAt(text, [line |-> pos.line, character |-> pos.character + 1])]

\* part_000 661: document.getText(range)
getText(text, range) == SubSeq(text, range.start + 1, range.end)

\* the edit a rename provider returns for the identifier at a position: every
\* occurrence of that identifier as a whole word becomes newName
RECURSIVE renameWords(_, _, _)
renameWords(text, word, newName) ==
  IF text = "" THEN ""
  ELSE LET n == wordEnd(text, 0)
       IN  IF n = 0
           THEN At(text, 1) \o renameWords(SubSeq(text, 2, Len(text)), word, newName)
           ELSE (IF SubSeq(text, 1, n) = word THEN newName ELSE SubSeq(text, 1, n))
                  \o renameWords(SubSeq(text, n + 1, Len(text)), word, newName)

\* ------------------------------------------------------------------ parseNamingDiagnostics
\* One line of clang-tidy output, as the two regular expressions of part_000
\* 542 and 550 see it: naming = the line matches the outer expression
\* (file:line:col: warning: ... [readability-identifier-naming]); sub = the
\* message matches the inner one, which then gives kind and symbol.
NamingLine(file, line, col, kind, symbol) ==
  [naming |-> TRUE, file |-> file, line |-> line, col |-> col,
   sub |-> TRUE, kind |-> kind, symbol |-> symbol]

UnparsedNamingLine(file, line, col) ==
  [naming |-> TRUE, file |-> file, line |-> line, col |-> col,
   sub |-> FALSE, kind |-> "", symbol |-> ""]

OtherLine ==
  [naming |-> FALSE, file |-> "", line |-> 0, col |-> 0,
   sub |-> FALSE, kind |-> "", symbol |-> ""]

\* part_000 540-572
RECURSIVE parseNamingDiagnostics(_)
parseNamingDiagnostics(out) ==
  IF out = <<>> THEN <<>>
  ELSE LET l == Head(out)
           d == IF l.sub
                THEN [file |-> l.file, line |-> l.line, col |-> l.col,
                      kind |-> l.kind, symbol |-> l.symbol]
                ELSE [file |-> l.file, line |-> l.line, col |-> l.col,
                      kind |-> "identifier", symbol |-> ""]
       IN  (IF l.naming THEN <<d>> ELSE <<>>) \o parseNamingDiagnostics(Tail(out))

\* part_000 637: (a, b) => b.line - a.line || b.col - a.col
compareDiags(a, b) == IF b.line - a.line # 0 THEN b.line - a.line ELSE b.col - a.col

RECURSIVE insertDiag(_, _)
insertDiag(sorted, x) ==
  IF sorted = <<>> THEN <<x>>
  ELSE IF compareDiags(Head(sorted), x) <= 0
       THEN <<Head(sorted)>> \o insertDiag(Tail(sorted), x)
       ELSE <<x>> \o sorted

\* part_000 637: diags.sort, a stable sort
RECURSIVE sortDiags(_)
sortDiags(ds) ==
  IF ds = <<>> THEN <<>>
  ELSE insertDiag(sortDiags(SubSeq(ds, 1, Len(ds) - 1)), ds[Len(ds)])

\* ------------------------------------------------------------------ the rename loop
\* part_000 645
keyOf(d) == d.kind \o "::" \o d.symbol

\* a loop that never finds a key in seen
alreadySeenNever(seen, d) == FALSE

\* part_000 646
alreadySeen(seen, d) == keyOf(d) \in seen

\* a test that lets a target equal to the current text through
noTargetOnlyNull(target, currentText) == target = NULL \/ target = ""

\* part_000 663: !target || target === currentText
noTarget(target, currentText) ==
  target = NULL \/ target = "" \/ target = currentText

\* the identifiers of the documents and the kinds clang-tidy reports them as
DocNames == {"AbC", "ab_c"}
DocKinds == {"variable", "class", "member"}

\* documents: up to MaxTokens identifiers, each two separated by a space or a
\* line break
RECURSIVE DocsOf(_)
DocsOf(n) ==
  IF n = 1 THEN DocNames
  ELSE {d \o sep \o w : d \in DocsOf(n - 1), sep \in {" ", "\n"}, w \in DocNames}

Docs == UNION {DocsOf(n) : n \in 1..MaxTokens}

\* a document in which a variable is used on a line above its declaration,
\* to the left of the declaration of another variable
ExampleRenameDoc == "AaBbCc; MyT Ob;\nint AaBbCc;"

\* the offsets at which an identifier starts
TokenStarts(text) ==
  {o \in 0..(Len(text) - 1) :
     IsWordChar(At(text, o + 1)) /\ (o = 0 \/ ~IsWordChar(At(text, o)))}

\* the lines clang-tidy can print for a saved document: a naming warning at
\* an identifier (1-based line and column), with its kind and text; a naming
\* warning whose message the inner expression does not match (at the first
\* identifier); a warning for another file; a line that is no naming warning
OutputLinesFor(text) ==
  UNION {LET p == posFromOffset(text, o)
             w == SubSeq(text, o + 1, wordEnd(text, o))
         IN  {NamingLine("current", p.line + 1, p.character + 1, k, w) : k \in DocKinds}
           : o \in TokenStarts(text)}
    \cup {UnparsedNamingLine("current", 1, 1),
          NamingLine("other", 1, 1, "variable", "AbC"), OtherLine}

\* what clang-tidy reports for ExampleRenameDoc: the two variables
ExampleRenameLines ==
  {NamingLine("current", 2, 5, "variable", "AaBbCc"),
   NamingLine("current", 1, 13, "variable", "Ob")}

RenameInit ==
  /\ \/ /\ rnDoc \in Docs
        /\ rnOutput \in SeqsUpTo(OutputLinesFor(rnDoc), MaxOutput)
     \/ /\ rnDoc = ExampleRenameDoc
        /\ rnOutput \in SeqsUpTo(ExampleRenameLines, MaxOutput)
  /\ rnPc = "diagnose"
  /\ rnDiags = <<>>
  /\ rnIdx = 1
  /\ rnSeen = {}
  /\ rnApplied = 0
  /\ rnLog = <<>>
  /\ rnMessage = ""

\* part_000 630-640: parse the output, keep this file's diagnostics, sort
\* them bottom-up; without diagnostics the loop is not entered (695-697)
Diagnose ==
  /\ rnPc = "diagnose"
  /\ LET ds == SelectSeq(parseNamingDiagnostics(rnOutput),
                         LAMBDA d : d.file = "current")
     IN  IF Len(ds) > 0
         THEN /\ rnDiags' = sortDiags(ds)
              /\ rnPc' = "loop"
              /\ rnMessage' = rnMessage
         ELSE /\ rnDiags' = ds
              /\ rnPc' = "done"
              /\ rnMessage' = "No naming violations detected."
  /\ UNCHANGED <<rnDoc, rnOutput, rnIdx, rnSeen, rnApplied, rnLog>>
  /\ UNCHANGED rnFrame

LogEntry(d, looked, anchor, current, target, requested, outcome, before, after) ==
  [diag |-> d, looked |-> looked, anchor |-> anchor, current |-> current,
   target |-> target, requested |-> requested, outcome |-> outcome,
   appliedBefore |-> before, appliedAfter |-> after]

\* part_000 641-686: one iteration of the for loop, for diags[rnIdx]
RenameIteration ==
  /\ rnPc = "loop"
  /\ rnIdx <= Len(rnDiags)
  /\ rnIdx' = rnIdx + 1
  /\ LET d == rnDiags[rnIdx]
         pos == [line |-> Max(0, d.line - 1), character |-> Max(0, d.col - 1)]
         range == rangeAtPosition(rnDoc, pos)
         text == getText(rnDoc, range)
         currentText == IF text = "" THEN d.symbol ELSE text
         target == inferTargetName(d.kind, currentText)
     IN  IF d.symbol = "" \/ alreadySeen(rnSeen, d)
         THEN \* 642-648: continue before the key is added
              /\ rnLog' = Append(rnLog,
                     LogEntry(d, FALSE, "", "", NULL, FALSE, "skipped", rnApplied, rnApplied))
              /\ UNCHANGED <<rnDoc, rnSeen, rnApplied>>
         ELSE /\ rnSeen' = rnSeen \cup {keyOf(d)}
              /\ IF noTarget(target, currentText)
                 THEN \* 663-665
                      /\ rnLog' = Append(rnLog,
                             LogEntry(d, TRUE, text, currentText, target, FALSE, "skipped",
                                      rnApplied, rnApplied))
                      /\ UNCHANGED <<rnDoc, rnApplied>>
                 ELSE \* 667-685: the rename provider throws, returns nothing,
                      \* or returns an edit that applyEdit rejects or applies;
                      \* the first three leave the same program state
                      \E outcome \in {"throws", "undefined", "rejected", "applied"} :
                        /\ outcome = "applied" => range.found
                        /\ rnDoc' = IF outcome = "applied"
                                    THEN renameWords(rnDoc, text, target)
                                    ELSE rnDoc
                        /\ rnApplied' = IF outcome = "applied"
                                        THEN rnApplied + 1 ELSE rnApplied
                        /\ rnLog' = Append(rnLog,
                               LogEntry(d, TRUE, text, currentText, target, TRUE,
                                        IF outcome = "applied" THEN "applied" ELSE "failed",
                                        rnApplied, rnApplied'))
  /\ UNCHANGED <<rnOutput, rnPc, rnDiags, rnMessage>>
  /\ UNCHANGED rnFrame

\* part_000 688-694: after the last diagnostic
FinishRenames ==
  /\ rnPc = "loop"
  /\ rnIdx > Len(rnDiags)
  /\ rnPc' = "done"
  /\ rnMessage' = IF rnApplied > 0 THEN "Applied rename(s) via language-server rename."
                  ELSE "No safe renames applied."
  /\ UNCHANGED <<rnDoc, rnOutput, rnDiags, rnIdx, rnSeen, rnApplied, rnLog>>
  /\ UNCHANGED rnFrame

RenameNext == Diagnose \/ RenameIteration \/ FinishRenames

\* ------------------------------------------------------------------ ensureStandardIncludes
\* part_000 190-247: the header table; a pattern \bstd::(w1|w2|...)\b is the
\* set of its words std::w
REQUIRED_HEADERS ==
  << [header |-> "iostream",
      patterns |-> << {"std::cout", "std::cerr", "std::clog", "std::cin"} >>],
     [header |-> "string", patterns |-> << {"std::string"} >>],
     [header |-> "vector", patterns |-> << {"std::vector"} >>],
     [header |-> "array", patterns |-> << {"std::array"} >>],
     [header |-> "map", patterns |-> << {"std::map"} >>],
     [header |-> "unordered_map", patterns |-> << {"std::unordered_map"} >>],
     [header |-> "set", patterns |-> << {"std::set"} >>],
     [header |-> "unordered_set", patterns |-> << {"std::unordered_set"} >>],
     [header |-> "optional", patterns |-> << {"std::optional"} >>],
     [header |-> "memory",
      patterns |-> << {"std::unique_ptr"}, {"std::shared_ptr"} >>],
     [header |-> "thread", patterns |-> << {"std::thread"} >>],
     [header |-> "mutex", patterns |-> << {"std::mutex"} >>],
     [header |-> "ctring", patterns |-> << {"std::atoi"} >>],
     [header |-> "ctring", patterns |-> << {"std::atol"} >> ] >>

\* \bW\b matches at 1-based index i of text: W stands there, between characters
\* that are not word characters (every W begins and ends with a word character)
wordAt(text, w, i) ==
  /\ SubSeq(text, i, i + Len(w) - 1) = w
  /\ (i = 1 \/ ~IsWordChar(At(text, i - 1)))
  /\ (i + Len(w) > Len(text) \/ ~IsWordChar(At(text, i + Len(w))))

\* r.test(text) for the pattern with the words ws
patternTest(ws, text) ==
  \E w \in ws : \E i \in 1..(Len(text) - Len(w) + 1) : wordAt(text, w, i)

LineBreaks == {"\n", "\r"}

\* the character at 1-based index i, "" outside the string
charAt(text, i) == IF i >= 1 /\ i <= Len(text) THEN At(text, i) ELSE ""

\* the n characters from index i on, fewer at the end of the string
sliceAt(text, i, n) == SubSeq(text, Min(i, Len(text) + 1), Min(i + n - 1, Len(text)))

\* index of the first character at or after i that is not white space
RECURSIVE skipSpace(_, _)
skipSpace(text, i) ==
  IF i <= Len(text) /\ At(text, i) \in SpaceChars THEN skipSpace(text, i + 1) ELSE i

\* index of the first character at or after i that is in C, Len + 1 if none
RECURSIVE firstIn(_, _, _)
firstIn(text, C, i) ==
  IF i > Len(text) \/ At(text, i) \in C THEN i ELSE firstIn(text, C, i + 1)

RECURSIVE trimStart(_)
trimStart(s) ==
  IF s # "" /\ At(s, 1) \in SpaceChars THEN trimStart(SubSeq(s, 2, Len(s))) ELSE s

RECURSIVE trimEnd(_)
trimEnd(s) ==
  IF s # "" /\ At(s, Len(s)) \in SpaceChars THEN trimEnd(SubSeq(s, 1, Len(s) - 1)) ELSE s

trim(s) == trimEnd(trimStart(s))

\* part_000 263 and 309: ^\s*#\s*include\s*([<"])\s*([^>"]+)\s*[>"].*$ tried
\* at index i of text. kind is group 1, name is group 2 trimmed, next is the
\* index after the match (.* runs to the end of the line of the closing
\* delimiter).
includeMatchAt(text, i) ==
  LET h == skipSpace(text, i)
      w == skipSpace(text, h + 1)
      k == skipSpace(text, w + 7)
      c == firstIn(text, {">", "\""}, k + 1)
  IN  IF /\ charAt(text, h) = "#"
         /\ sliceAt(text, w, 7) = "include"
         /\ charAt(text, k) \in {"<", "\""}
         /\ c <= Len(text)
         /\ c >= k + 2
      THEN [matched |-> TRUE, kind |-> At(text, k),
            name |-> trim(SubSeq(text, k + 1, c - 1)),
            next |-> firstIn(text, LineBreaks, c + 1)]
      ELSE [matched |-> FALSE, kind |-> "", name |-> "", next |-> i]

\* part_000 264-273: the exec loop of the global multi-line expression from
\* index i on; ^ matches at the start of the text and after a line break
RECURSIVE existingIncludes(_, _)
existingIncludes(text, i) ==
  IF i > Len(text) THEN [std |-> {}, local |-> {}]
  ELSE LET m == IF i = 1 \/ At(text, i - 1) \in LineBreaks
                THEN includeMatchAt(text, i)
                ELSE [matched |-> FALSE, kind |-> "", name |-> "", next |-> i]
       IN  IF m.matched
           THEN LET rest == existingIncludes(text, m.next)
                IN  IF m.kind = "<"
                    THEN [rest EXCEPT !.std = @ \cup {m.name}]
                    ELSE [rest EXCEPT !.local = @ \cup {m.name}]
           ELSE existingIncludes(text, i + 1)

\* part_000 276-293: the headers of the table, in table order, that are not
\* included with <...> and have a pattern that matches
RECURSIVE neededFrom(_, _, _)
neededFrom(table, text, existingStd) ==
  IF table = <<>> THEN <<>>
  ELSE LET entry == Head(table)
           found == \E p \in 1..Len(entry.patterns) : patternTest(entry.patterns[p], text)
       IN  (IF entry.header \notin existingStd /\ found THEN <<entry.header>> ELSE <<>>)
             \o neededFrom(Tail(table), text, existingStd)

needed(text, existingStd) == neededFrom(REQUIRED_HEADERS, text, existingStd)

\* the order of Array.prototype.sort without a comparator: by UTF-16 code
\* units ('_' before the lower-case letters), a proper prefix first
CodeOrder == "_" \o LowerLetters

codeOf(c) == CHOOSE i \in 1..Len(CodeOrder) : At(CodeOrder, i) = c

RECURSIVE lessOrEqual(_, _)
lessOrEqual(a, b) ==
  IF a = "" THEN TRUE
  ELSE IF b = "" THEN FALSE
  ELSE IF At(a, 1) = At(b, 1)
       THEN lessOrEqual(SubSeq(a, 2, Len(a)), SubSeq(b, 2, Len(b)))
       ELSE codeOf(At(a, 1)) < codeOf(At(b, 1))

RECURSIVE insertHeader(_, _)
insertHeader(sorted, h) ==
  IF sorted = <<>> THEN <<h>>
  ELSE IF lessOrEqual(Head(sorted), h)
       THEN <<Head(sorted)>> \o insertHeader(Tail(sorted), h)
       ELSE <<h>> \o sorted

\* part_000 299: needed.sort()
RECURSIVE sortHeaders(_)
sortHeaders(hs) ==
  IF hs = <<>> THEN <<>>
  ELSE insertHeader(sortHeaders(SubSeq(hs, 1, Len(hs) - 1)), hs[Len(hs)])

\* part_000 301: text.split(/\r?\n/)
RECURSIVE splitLines(_)
splitLines(text) ==
  LET n == firstIn(text, {"\n"}, 1)
  IN  IF n > Len(text) THEN <<text>>
      ELSE LET e == IF n > 1 /\ At(text, n - 1) = "\r" THEN n - 2 ELSE n - 1
           IN  <<SubSeq(text, 1, e)>> \o splitLines(SubSeq(text, n + 1, Len(text)))

\* part_000 309: the expression without flags, on one line: the whole line
lineMatch(line) ==
  LET m == includeMatchAt(line, 1)
  IN  [matched |-> m.matched /\ m.next = Len(line) + 1, kind |-> m.kind]

\* part_000 303-325: the scan of the lines from index i (0-based) on, acc
\* holding firstInclude, lastStdInclude and firstLocalInclude
RECURSIVE scanIncludes(_, _, _)
scanIncludes(lines, i, acc) ==
  IF i >= Len(lines) THEN acc
  ELSE LET m2 == lineMatch(lines[i + 1])
           a1 == IF acc.firstInclude = -1 THEN [acc EXCEPT !.firstInclude = i] ELSE acc
           a2 == IF m2.kind = "<" THEN [a1 EXCEPT !.lastStdInclude = i]
                 ELSE IF m2.kind = "\"" /\ a1.firstLocalInclude = -1
                      THEN [a1 EXCEPT !.firstLocalInclude = i]
                      ELSE a1
       IN  scanIncludes(lines, i + 1, IF m2.matched THEN a2 ELSE acc)

\* an insertion point that puts the first include line of any kind first
insertIndexFirstInclude(lines) ==
  LET s == scanIncludes(lines, 0,
             [firstInclude |-> -1, lastStdInclude |-> -1, firstLocalInclude |-> -1])
  IN  IF s.firstInclude >= 0 THEN s.firstInclude ELSE 0

\* part_000 303-340
insertIndex(lines) ==
  LET s == scanIncludes(lines, 0,
             [firstInclude |-> -1, lastStdInclude |-> -1, firstLocalInclude |-> -1])
  IN  IF s.lastStdInclude >= 0 THEN s.lastStdInclude + 1
      ELSE IF s.firstLocalInclude >= 0 THEN s.firstLocalInclude
      ELSE IF s.firstInclude >= 0 THEN s.firstInclude
      ELSE 0

\* part_000 342: needed.map((h) => `#include <${h}>`)
newLinesFor(hs) == [i \in 1..Len(hs) |-> "#include <" \o hs[i] \o ">"]

\* part_000 344: lines.splice(insertIndex, 0, ...newLines)
splice(lines, index, newLines) ==
  SubSeq(lines, 1, index) \o newLines \o SubSeq(lines, index + 1, Len(lines))

\* part_000 347: lines.join(eol)
RECURSIVE joinLines(_, _)
joinLines(lines, eol) ==
  IF Len(lines) = 0 THEN ""
  ELSE IF Len(lines) = 1 THEN lines[1]
  ELSE lines[1] \o eol \o joinLines(Tail(lines), eol)

\* the lines of the documents: includes of the three shapes, uses of the
\* library that the table detects, an empty line and a commented-out include
IncLines ==
  { "#include <vector>",
    "#include \"a.h\"",
    " # include <ctring> // c",
    "std::vector<std::array<int, 2>> v;",
    "std::atoi(s); std::atol(s);",
    "std::atol(s);",
    "",
    "//#include <map>" }

\* a TextDocument has one end-of-line sequence, which getText() uses
IncludesInit ==
  /\ incEol \in {"\n", "\r\n"}
  /\ incLines \in SeqsUpTo(IncLines, MaxLines)
  /\ incText = joinLines(incLines, incEol)
  /\ incDoc = incText
  /\ incPc = "start"
  /\ incNeeded = <<>>
  /\ incInsertIndex = -1
  /\ incNewText = ""

\* part_000 250-360: from openTextDocument to the WorkspaceEdit
EnsureStandardIncludes ==
  /\ incPc = "start"
  /\ LET hs == IF incText = "" THEN <<>>
               ELSE sortHeaders(needed(incText, existingIncludes(incText, 1).std))
         lines == splitLines(incText)
         at == insertIndex(lines)
         newText == joinLines(splice(lines, at, newLinesFor(hs)), incEol)
     IN  IF hs = <<>>
         THEN \* 255-257, 295-297
              /\ incPc' = "returned"
              /\ UNCHANGED <<incNeeded, incInsertIndex, incNewText>>
         ELSE /\ incNeeded' = hs
              /\ incInsertIndex' = at
              /\ incNewText' = newText
              /\ incPc' = IF newText = incText THEN "returned" ELSE "applyEdit"
  /\ UNCHANGED <<incLines, incText, incEol, incDoc>>
  /\ UNCHANGED incFrame

\* part_000 360-361: applyEdit, whose result is not looked at, then save
IncludesApplyEdit ==
  /\ incPc = "applyEdit"
  /\ \E ok \in BOOLEAN : incDoc' = IF ok THEN incNewText ELSE incDoc
  /\ incPc' = "done"
  /\ UNCHANGED <<incLines, incText, incEol, incNeeded, incInsertIndex, incNewText>>
  /\ UNCHANGED incFrame

IncludesNext == EnsureStandardIncludes \/ IncludesApplyEdit

\* ------------------------------------------------------------------ fixFilesGoogleStyle
\* what the run has done so far is kept as a list of events: the start and
\* the end of each step of each file (by its index in files)
Event(i, step, ev) == [file |-> i, step |-> step, ev |-> ev]

Warning(i, tool) == [file |-> i, tool |-> tool]

WsFileNames == {"/w/a.cc", "/w/b.h"}

ExitCodes == {0, 1}

WorkspaceInit ==
  /\ wsFiles \in SeqsUpTo(WsFileNames, MaxFiles)
  /\ wsPc = "start"
  /\ wsIdx = 0
  /\ wsLog = <<>>
  /\ wsWarnings = <<>>
  /\ wsMessage = ""

\* part_000 371-429: without files a message and return; else the loop is
\* entered and runTool spawns clang-tidy for the first file
WsStart ==
  /\ wsPc = "start"
  /\ IF Len(wsFiles) = 0
     THEN /\ wsPc' = "returned"
          /\ wsMessage' = "no C/C++ files to process."
          /\ UNCHANGED <<wsIdx, wsLog>>
     ELSE /\ wsPc' = "tidy"
          /\ wsIdx' = 1
          /\ wsLog' = Append(wsLog, Event(1, "tidy", "start"))
          /\ UNCHANGED wsMessage
  /\ UNCHANGED <<wsFiles, wsWarnings>>
  /\ UNCHANGED wsFrame

\* a close handler that goes on to clang-format without the include step
TidyCloseSkipsIncludes ==
  /\ wsPc = "tidy"
  /\ \E code \in ExitCodes :
       wsWarnings' = IF code # 0 THEN Append(wsWarnings, Warning(wsIdx, "clang-tidy"))
                     ELSE wsWarnings
  /\ wsLog' = wsLog \o <<Event(wsIdx, "tidy", "end"), Event(wsIdx, "format", "start")>>
  /\ wsPc' = "format"
  /\ UNCHANGED <<wsFiles, wsIdx, wsMessage>>
  /\ UNCHANGED wsFrame

\* part_000 153-165, 425-437: clang-tidy closes with an exit code, the
\* promise of runTool resolves, a non-zero code gives a warning, and
\* ensureStandardIncludes is called
TidyClose ==
  /\ wsPc = "tidy"
  /\ \E code \in ExitCodes :
       wsWarnings' = IF code # 0 THEN Append(wsWarnings, Warning(wsIdx, "clang-tidy"))
                     ELSE wsWarnings
  /\ wsLog' = wsLog \o <<Event(wsIdx, "tidy", "end"), Event(wsIdx, "includes", "start")>>
  /\ wsPc' = "includes"
  /\ UNCHANGED <<wsFiles, wsIdx, wsMessage>>
  /\ UNCHANGED wsFrame

\* part_000 139-165: the process could not be spawned. The child emits
\* 'error', for which runTool has no listener, and no 'close' is delivered:
\* the promise is never resolved and the loop never resumed
ToolSpawnError ==
  /\ wsPc \in {"tidy", "format"}
  /\ wsPc' = "hung"
  /\ UNCHANGED <<wsFiles, wsIdx, wsLog, wsWarnings, wsMessage>>
  /\ UNCHANGED wsFrame

\* part_000 437-445: ensureStandardIncludes returns (with or without an
\* edit) and runTool spawns clang-format
IncludesDone ==
  /\ wsPc = "includes"
  /\ wsLog' = wsLog \o <<Event(wsIdx, "includes", "end"), Event(wsIdx, "format", "start")>>
  /\ wsPc' = "format"
  /\ UNCHANGED <<wsFiles, wsIdx, wsWarnings, wsMessage>>
  /\ UNCHANGED wsFrame

\* part_000 251, 437, 745-753: openTextDocument (or applyEdit, save) rejects;
\* the run ends in the catch of the command
IncludesThrow ==
  /\ wsPc = "includes"
  /\ wsPc' = "threw"
  /\ wsMessage' = "error, see output channel."
  /\ UNCHANGED <<wsFiles, wsIdx, wsLog, wsWarnings>>
  /\ UNCHANGED wsFrame

\* part_000 153-165, 441-453: clang-format closes; a non-zero code gives a
\* warning; the loop goes to the next file and spawns clang-tidy for it, or
\* ends with the done message
FormatClose ==
  /\ wsPc = "format"
  /\ \E code \in ExitCodes :
       wsWarnings' = IF code # 0 THEN Append(wsWarnings, Warning(wsIdx, "clang-format"))
                     ELSE wsWarnings
  /\ IF wsIdx < Len(wsFiles)
     THEN /\ wsIdx' = wsIdx + 1
          /\ wsLog' = wsLog \o <<Event(wsIdx, "format", "end"),
                                 Event(wsIdx + 1, "tidy", "start")>>
          /\ wsPc' = "tidy"
          /\ UNCHANGED wsMessage
     ELSE /\ wsLog' = Append(wsLog, Event(wsIdx, "format", "end"))
          /\ wsPc' = "done"
          /\ wsMessage' = "done."
          /\ UNCHANGED wsIdx
  /\ UNCHANGED wsFiles
  /\ UNCHANGED wsFrame

WorkspaceNext ==
  \/ WsStart
  \/ TidyClose
  \/ ToolSpawnError
  \/ IncludesDone
  \/ IncludesThrow
  \/ FormatClose

\* ------------------------------------------------------------------ fixWorkspaceGoogleStyle
\* the files on disk, in the order in which findFiles lists them
DiskFiles == <<"/w/a.cc", "/w/s/c.cc", "/w2/b.h">>

WcFolderNames == {"/w", "/w/s", "/w2"}

WcGlobs == {"**/*.cc", "**/*.h", "**/*.{cc,h}"}

\* String.prototype.startsWith
startsWith(s, p) == Len(p) <= Len(s) /\ SubSeq(s, 1, Len(p)) = p

\* the parts of s between commas
RECURSIVE splitComma(_)
splitComma(s) ==
  LET n == firstIn(s, {","}, 1)
  IN  IF n > Len(s) THEN {s}
      ELSE {SubSeq(s, 1, n - 1)} \cup splitComma(SubSeq(s, n + 1, Len(s)))

\* the file extensions a glob **/*.x or **/*.{x,y} stands for
extensionsOf(pattern) ==
  LET rest == SubSeq(pattern, Len("**/*.") + 1, Len(pattern))
  IN  IF At(rest, 1) = "{" THEN splitComma(SubSeq(rest, 2, Len(rest) - 1)) ELSE {rest}

\* the part of a path after its last dot
RECURSIVE extensionOf(_)
extensionOf(path) ==
  LET n == firstIn(path, {"."}, 1)
  IN  IF n > Len(path) THEN path ELSE extensionOf(SubSeq(path, n + 1, Len(path)))

\* the host's notion of a file lying in a workspace folder: by path segments
inFolder(path, folder) == startsWith(path, folder \o "/")

\* part_000 178: vscode.workspace.findFiles(pattern, exclude): the files of
\* all workspace folders that the glob matches (none of them excluded)
findFiles(pattern, folders) ==
  SelectSeq(DiskFiles,
            LAMBDA f : /\ \E i \in 1..Len(folders) : inFolder(f, folders[i])
                       /\ extensionOf(f) \in extensionsOf(pattern))

\* part_000 170-186
RECURSIVE collectCppFiles(_, _, _)
collectCppFiles(folder, fileGlobs, folders) ==
  IF fileGlobs = <<>> THEN <<>>
  ELSE SelectSeq(findFiles(Head(fileGlobs), folders), LAMBDA uri : startsWith(uri, folder))
         \o collectCppFiles(folder, Tail(fileGlobs), folders)

\* sequences over S of length at most n without a repeated element
DistinctSeqsUpTo(S, n) ==
  {s \in SeqsUpTo(S, n) : \A i, j \in 1..Len(s) : s[i] = s[j] => i = j}

CollectInit ==
  /\ wcFolders \in DistinctSeqsUpTo(WcFolderNames, MaxFolders)
  /\ wcGlobs \in SeqsUpTo(WcGlobs, MaxGlobs)
  /\ wcPc = "start"
  /\ wcFolderIdx = 1
  /\ wcAllFiles = <<>>
  /\ wcMessage = ""

\* part_000 459-467: without a workspace folder an error message and return
WcStart ==
  /\ wcPc = "start"
  /\ IF Len(wcFolders) = 0
     THEN wcPc' = "returned" /\ wcMessage' = "No workspace folder is open."
     ELSE wcPc' = "collect" /\ wcMessage' = wcMessage
  /\ UNCHANGED <<wcFolders, wcGlobs, wcFolderIdx, wcAllFiles>>
  /\ UNCHANGED wcFrame

\* part_000 470-477: one iteration of the loop over the folders
CollectFolder ==
  /\ wcPc = "collect"
  /\ wcFolderIdx <= Len(wcFolders)
  /\ wcAllFiles' = wcAllFiles \o collectCppFiles(wcFolders[wcFolderIdx], wcGlobs, wcFolders)
  /\ wcFolderIdx' = wcFolderIdx + 1
  /\ UNCHANGED <<wcFolders, wcGlobs, wcPc, wcMessage>>
  /\ UNCHANGED wcFrame

\* part_000 479-483: fixFilesGoogleStyle is called with allFiles, which it
\* iterates entry by entry (398)
CallFixFiles ==
  /\ wcPc = "collect"
  /\ wcFolderIdx > Len(wcFolders)
  /\ wcPc' = "fix"
  /\ UNCHANGED <<wcFolders, wcGlobs, wcFolderIdx, wcAllFiles, wcMessage>>
  /\ UNCHANGED wcFrame

CollectNext == WcStart \/ CollectFolder \/ CallFixFiles

\* ------------------------------------------------------------------ the current-file commands
CommandNames == {"formatCurrent", "enforceStyleCurrent", "fixCurrentFileGoogleStyle"}

\* languageId of the document of the active editor, "none" without an editor
Languages == {"none", "cpp", "c", "python"}

CommandInit ==
  /\ cmdName \in CommandNames
  /\ cmdHasFolder \in BOOLEAN
  /\ cmdLanguage \in Languages
  /\ cmdDirty \in (IF cmdLanguage = "none" THEN {FALSE} ELSE BOOLEAN)
  /\ cmdPc = "start"
  /\ cmdMessage = ""
  /\ cmdSaved = FALSE
  /\ cmdTools = <<>>
  /\ cmdEdits = 0

\* extension.ts 115-125: formatCurrent up to the call of clang-format. ws()
\* throws without a workspace folder (25-29), and the host shows the error of
\* a command that rejects.
FormatCurrentEnter ==
  /\ cmdPc = "start"
  /\ cmdName = "formatCurrent"
  /\ IF ~cmdHasFolder
     THEN /\ cmdPc' = "threw" /\ cmdMessage' = "Open a folder workspace."
          /\ UNCHANGED <<cmdSaved, cmdTools>>
     ELSE IF cmdLanguage = "none"
     THEN /\ cmdPc' = "returned" /\ cmdMessage' = "Open a C/C++ file."
          /\ UNCHANGED <<cmdSaved, cmdTools>>
     ELSE /\ cmdSaved' = cmdDirty
          /\ cmdTools' = Append(cmdTools, "clang-format")
          /\ cmdPc' = "format"
          /\ UNCHANGED cmdMessage
  /\ UNCHANGED <<cmdName, cmdHasFolder, cmdLanguage, cmdDirty, cmdEdits>>
  /\ UNCHANGED cmdFrame

\* extension.ts 125-130: clang-format ended; execFileAsync rejects when it
\* failed, else the whole document is replaced by its output
FormatCurrentDone ==
  /\ cmdPc = "format"
  /\ cmdName = "formatCurrent"
  /\ \E failed \in BOOLEAN :
       IF failed
       THEN cmdPc' = "threw" /\ cmdMessage' = "clang-format failed" /\ cmdEdits' = cmdEdits
       ELSE cmdPc' = "returned" /\ cmdMessage' = "clang-format applied."
              /\ cmdEdits' = cmdEdits + 1
  /\ UNCHANGED <<cmdName, cmdHasFolder, cmdLanguage, cmdDirty, cmdSaved, cmdTools>>
  /\ UNCHANGED cmdFrame

\* extension.ts 133-144, 115-125: enforceStyleCurrent up to the call of
\* clang-format inside formatCurrent
EnforceStyleEnter ==
  /\ cmdPc = "start"
  /\ cmdName = "enforceStyleCurrent"
  /\ IF ~cmdHasFolder
     THEN /\ cmdPc' = "threw" /\ cmdMessage' = "Open a folder workspace."
          /\ UNCHANGED <<cmdSaved, cmdTools>>
     ELSE IF cmdLanguage = "none"
     THEN /\ cmdPc' = "returned" /\ cmdMessage' = "Open a C/C++ file."
          /\ UNCHANGED <<cmdSaved, cmdTools>>
     ELSE IF cmdLanguage # "cpp" /\ cmdLanguage # "c"
     THEN /\ cmdPc' = "returned" /\ cmdMessage' = "Not a C/C++ file."
          /\ UNCHANGED <<cmdSaved, cmdTools>>
     ELSE /\ cmdSaved' = cmdDirty
          /\ cmdTools' = Append(cmdTools, "clang-format")
          /\ cmdPc' = "format"
          /\ UNCHANGED cmdMessage
  /\ UNCHANGED <<cmdName, cmdHasFolder, cmdLanguage, cmdDirty, cmdEdits>>
  /\ UNCHANGED cmdFrame

\* extension.ts 125-130, 146-166: clang-format ended inside formatCurrent;
\* then clang-tidy is run in a terminal and with execFileAsync
EnforceStyleFormatted ==
  /\ cmdPc = "format"
  /\ cmdName = "enforceStyleCurrent"
  /\ \E failed \in BOOLEAN :
       IF failed
       THEN /\ cmdPc' = "threw" /\ cmdMessage' = "clang-format failed"
            /\ UNCHANGED <<cmdEdits, cmdTools>>
       ELSE /\ cmdPc' = "tidy" /\ cmdMessage' = "clang-format applied."
            /\ cmdEdits' = cmdEdits + 1
            /\ cmdTools' = Append(cmdTools, "clang-tidy")
  /\ UNCHANGED <<cmdName, cmdHasFolder, cmdLanguage, cmdDirty, cmdSaved>>
  /\ UNCHANGED cmdFrame

\* extension.ts 166-177: clang-tidy ended; without a fixes file a message,
\* else previewAndApplyFixes, which applies an edit or not
EnforceStyleTidied ==
  /\ cmdPc = "tidy"
  /\ cmdName = "enforceStyleCurrent"
  /\ \E outcome \in {"failed", "noFixesFile", "applied", "notApplied"} :
       /\ cmdPc' = IF outcome = "failed" THEN "threw" ELSE "returned"
       /\ cmdMessage' = CASE outcome = "failed" -> "clang-tidy failed"
                          [] outcome = "noFixesFile" -> "No clang-tidy style fixes to apply."
                          [] outcome = "applied" -> "Google style fixes applied (naming + braces)."
                          [] outcome = "notApplied" -> "No fixes applied."
       /\ cmdEdits' = IF outcome = "applied" THEN cmdEdits + 1 ELSE cmdEdits
  /\ UNCHANGED <<cmdName, cmdHasFolder, cmdLanguage, cmdDirty, cmdSaved, cmdTools>>
  /\ UNCHANGED cmdFrame

\* part_000 604-630: fixCurrentFileGoogleStyle up to the diagnose run of
\* clang-tidy
FixCurrentEnter ==
  /\ cmdPc = "start"
  /\ cmdName = "fixCurrentFileGoogleStyle"
  /\ IF cmdLanguage = "none"
     THEN /\ cmdPc' = "returned" /\ cmdMessage' = "Open a C/C++ file."
          /\ UNCHANGED <<cmdSaved, cmdTools>>
     ELSE IF ~cmdHasFolder
     THEN /\ cmdPc' = "returned" /\ cmdMessage' = "No workspace folder is open."
          /\ UNCHANGED <<cmdSaved, cmdTools>>
     ELSE /\ cmdSaved' = TRUE
          /\ cmdTools' = Append(cmdTools, "clang-tidy")
          /\ cmdPc' = "diagnose"
          /\ UNCHANGED cmdMessage
  /\ UNCHANGED <<cmdName, cmdHasFolder, cmdLanguage, cmdDirty, cmdEdits>>
  /\ UNCHANGED cmdFrame

\* part_000 630-738: the diagnose run closed; the renames (edits applied or
\* not), then clang-tidy with -fix and clang-format
FixCurrentRest ==
  /\ cmdPc = "diagnose"
  /\ cmdName = "fixCurrentFileGoogleStyle"
  /\ \E renames \in 0..1 : cmdEdits' = cmdEdits + renames
  /\ cmdTools' = cmdTools \o <<"clang-tidy", "clang-format">>
  /\ cmdPc' = "returned"
  /\ cmdMessage' = "current file formatted with naming updates."
  /\ UNCHANGED <<cmdName, cmdHasFolder, cmdLanguage, cmdDirty, cmdSaved>>
  /\ UNCHANGED cmdFrame

CommandNext ==
  \/ FormatCurrentEnter
  \/ FormatCurrentDone
  \/ EnforceStyleEnter
  \/ EnforceStyleFormatted
  \/ EnforceStyleTidied
  \/ FixCurrentEnter
  \/ FixCurrentRest

\* ------------------------------------------------------------------ specifications
FixIdle ==
  /\ docText = "" /\ origText = "" /\ fixes = [parsed |-> "idle", Diagnostics |-> <<>>] /\ fpc = "idle"
  /\ reps = <<>> /\ choice = "none" /\ edit = <<>> /\ ret = "none"

PosIdle ==
  /\ posText = "" /\ posOffset = 0 /\ posDone = TRUE
  /\ posResult = [line |-> 0, character |-> 0]

CaseIdle == caseInput = "" /\ caseStep = 3 /\ caseValue = "" /\ casePascal = ""

InferIdle ==
  inferKind = "" /\ inferCurrent = "" /\ inferDone = TRUE /\ inferResult = NULL

RenameIdle ==
  /\ rnDoc = "" /\ rnOutput = <<>> /\ rnPc = "idle" /\ rnDiags = <<>> /\ rnIdx = 1
  /\ rnSeen = {} /\ rnApplied = 0 /\ rnLog = <<>> /\ rnMessage = ""

IncludesIdle ==
  /\ incLines = <<>> /\ incText = "" /\ incEol = "\n" /\ incDoc = "" /\ incPc = "idle"
  /\ incNeeded = <<>> /\ incInsertIndex = -1 /\ incNewText = ""

WorkspaceIdle ==
  /\ wsFiles = <<>> /\ wsPc = "idle" /\ wsIdx = 0 /\ wsLog = <<>>
  /\ wsWarnings = <<>> /\ wsMessage = ""

CollectIdle ==
  /\ wcFolders = <<>> /\ wcGlobs = <<>> /\ wcPc = "idle" /\ wcFolderIdx = 1
  /\ wcAllFiles = <<>> /\ wcMessage = ""

CommandIdle ==
  /\ cmdName = "" /\ cmdHasFolder = FALSE /\ cmdLanguage = "none" /\ cmdDirty = FALSE
  /\ cmdPc = "idle" /\ cmdMessage = "" /\ cmdSaved = FALSE /\ cmdTools = <<>> /\ cmdEdits = 0

Init == FixInit /\ PosIdle /\ CaseIdle /\ InferIdle /\ RenameIdle /\ IncludesIdle /\ WorkspaceIdle /\ CollectIdle /\ CommandIdle
Next == FixNext
Spec == Init /\ [][Next]_vars

InitPos == PosInit /\ FixIdle /\ CaseIdle /\ InferIdle /\ RenameIdle /\ IncludesIdle /\ WorkspaceIdle /\ CollectIdle /\ CommandIdle
NextPos == PosNext
SpecPos == InitPos /\ [][NextPos]_vars

InitInfer == InferInit /\ FixIdle /\ PosIdle /\ CaseIdle /\ RenameIdle /\ IncludesIdle /\ WorkspaceIdle /\ CollectIdle /\ CommandIdle
NextInfer == InferNext
SpecInfer == InitInfer /\ [][NextInfer]_vars

InitCase == CaseInit /\ FixIdle /\ PosIdle /\ InferIdle /\ RenameIdle /\ IncludesIdle /\ WorkspaceIdle /\ CollectIdle /\ CommandIdle
NextCase == CaseNext
SpecCase == InitCase /\ [][NextCase]_vars

InitRename == RenameInit /\ FixIdle /\ PosIdle /\ CaseIdle /\ InferIdle /\ IncludesIdle /\ WorkspaceIdle /\ CollectIdle /\ CommandIdle
NextRename == RenameNext
SpecRename == InitRename /\ [][NextRename]_vars

InitIncludes == IncludesInit /\ FixIdle /\ PosIdle /\ CaseIdle /\ InferIdle /\ RenameIdle /\ WorkspaceIdle /\ CollectIdle /\ CommandIdle
NextIncludes == IncludesNext
SpecIncludes == InitIncludes /\ [][NextIncludes]_vars

InitWorkspace == WorkspaceInit /\ FixIdle /\ PosIdle /\ CaseIdle /\ InferIdle /\ RenameIdle /\ IncludesIdle /\ CollectIdle /\ CommandIdle
NextWorkspace == WorkspaceNext
SpecWorkspace == InitWorkspace /\ [][NextWorkspace]_vars

\* every tool process that was spawned ends, and the host delivers the events
\* and resumes the awaits that can go on
SpecWorkspaceFair == SpecWorkspace /\ WF_vars(NextWorkspace)

InitCollect == CollectInit /\ FixIdle /\ PosIdle /\ CaseIdle /\ InferIdle /\ RenameIdle /\ IncludesIdle /\ WorkspaceIdle /\ CommandIdle
NextCollect == CollectNext
SpecCollect == InitCollect /\ [][NextCollect]_vars

InitCommand == CommandInit /\ FixIdle /\ PosIdle /\ CaseIdle /\ InferIdle /\ RenameIdle /\ IncludesIdle /\ WorkspaceIdle /\ CollectIdle
NextCommand == CommandNext
SpecCommand == InitCommand /\ [][NextCommand]_vars

\* ================================================================== claims
\* the replacements of the fixes record that target the file, in file order
Targeted == collectReps(fixes.Diagnostics)

RepEnd(r) == r.Offset + r.Length

EditBuilt == fpc \in {"submitted", "done"} /\ choice = "apply"

InRange(rs, text) == \A i \in 1..Len(rs) : RepEnd(rs[i]) <= Len(text)

\* no two ranges share a character, and no insertion lies inside a range
PairwiseDisjoint(rs) ==
  \A i, j \in 1..Len(rs) :
    i < j => (RepEnd(rs[i]) <= rs[j].Offset \/ RepEnd(rs[j]) <= rs[i].Offset)

\* two ranges [Offset, Offset + Length) intersect
Overlapping(rs) ==
  \E i, j \in 1..Len(rs) :
    /\ i < j
    /\ Max(rs[i].Offset, rs[j].Offset) < Min(RepEnd(rs[i]), RepEnd(rs[j]))

Arrangements(rs) ==
  {[i \in 1..Len(rs) |-> rs[f[i]]] :
     f \in {g \in [1..Len(rs) -> 1..Len(rs)] : \A a, b \in 1..Len(rs) : g[a] = g[b] => a = b}}

\* every replacement substituted at its original offset: left to right over
\* the original text, `chain` being the replacements from left to right
RECURSIVE Substitute(_, _, _)
Substitute(text, chain, from) ==
  IF chain = <<>> THEN SubSeq(text, from + 1, Len(text))
  ELSE LET r == Head(chain)
       IN  SubSeq(text, from + 1, r.Offset)
             \o (IF r.ReplacementText = NULL THEN "" ELSE r.ReplacementText)
             \o Substitute(text, Tail(chain), RepEnd(r))

\* the reference texts: one per left-to-right arrangement of the replacements
\* (insertions at one offset may come in either order)
ReferenceTexts(text, rs) ==
  {Substitute(text, c, 0) :
     c \in {q \in Arrangements(rs) :
              \A i \in 1..(Len(rs) - 1) : RepEnd(q[i]) <= q[i + 1].Offset}}

\* C1: for non-overlapping in-range replacements in any input order, the edit
\* applied one operation after another in batch order gives the text of the
\* simultaneous substitution.
C1_SequentialEqualsReference ==
  (EditBuilt /\ InRange(Targeted, origText) /\ PairwiseDisjoint(Targeted))
    => applyInOrder(origText, edit) \in ReferenceTexts(origText, Targeted)

\* C2: the edit holds the target's replacements in non-increasing offset
\* order, one operation per replacement, whatever their order in the file.
C2_DescendingOffsets ==
  EditBuilt =>
    /\ reps \in Arrangements(Targeted)
    /\ Len(edit) = Len(reps)
    /\ \A i \in 1..Len(reps) :
         edit[i].start = posFromOffset(origText, reps[i].Offset)
    /\ \A i, j \in 1..Len(reps) : i < j => reps[i].Offset >= reps[j].Offset

\* C2 witness: an edit built from replacements given in ascending offset order
C2_Witness ==
  /\ EditBuilt
  /\ \E i, j \in 1..Len(Targeted) : i < j /\ Targeted[i].Offset < Targeted[j].Offset

\* C3: with two overlapping replacements for the target, nothing is applied,
\* the text is unchanged and success is not reported.
C3_OverlapRejected ==
  (fpc = "done" /\ fixes.parsed = "ok" /\ Overlapping(Targeted))
    => (ret # "true" /\ docText = origText)

\* C4: replacements of one offset are in descending Length order in the batch.
C4_TiesByDescendingLength ==
  EditBuilt =>
    \A i, j \in 1..Len(reps) :
      (i < j /\ reps[i].Offset = reps[j].Offset) => reps[i].Length >= reps[j].Length

\* C6: without a Diagnostics key, without a replacement for the file, or when
\* the prompt is cancelled or dismissed, the result is false and the text is
\* unchanged; the result is true only for an edit that was submitted, and the
\* text changes only then.
C6_OnlyAfterApply ==
  /\ (fpc = "done" /\ (\/ fixes.parsed \in {"undefined", "noDiagnostics"}
                       \/ (fixes.parsed = "ok" /\ Targeted = <<>>)
                       \/ choice \in {"cancel", "dismiss"}))
       => (ret = "false" /\ docText = origText)
  /\ ret = "true" => (fpc = "done" /\ choice = "apply" /\ Len(edit) > 0)
  /\ docText # origText => (ret = "true" /\ choice = "apply")
  /\ fpc # "done" => (ret = "none" /\ docText = origText)

\* C6 witness: replacements for the file were offered and the user cancelled
C6_Witness ==
  /\ fpc = "done"
  /\ choice = "cancel"
  /\ \E i \in 1..Len(Targeted) : Targeted[i].Length > 0
  /\ ret = "false"

\* C5: posFromOffset gives the number of newlines among the first
\* min(offset, |text|) characters and the number of characters after the last
\* of them; past the end it gives the end of the text.
NewlinesBefore(text, m) == {i \in 1..m : At(text, i) = "\n"}

C5_Reference(text, offset) ==
  LET m == Min(offset, Len(text))
      nl == NewlinesBefore(text, m)
      last == IF nl = {} THEN 0 ELSE CHOOSE i \in nl : \A k \in nl : k <= i
  IN  [line |-> Cardinality(nl), character |-> m - last]

C5_PosFromOffset ==
  posDone =>
    /\ posResult = C5_Reference(posText, posOffset)
    /\ posOffset >= Len(posText) => posResult = C5_Reference(posText, Len(posText))
    /\ posText = ExampleText =>
         /\ posOffset = 0 => posResult = [line |-> 0, character |-> 0]
         /\ posOffset = 3 => posResult = [line |-> 1, character |-> 0]
         /\ posOffset >= 5 => posResult = [line |-> 1, character |-> 2]

\* C5 witness: an offset past the end of "ab\ncd"
C5_Witness ==
  /\ posDone
  /\ posText = ExampleText
  /\ posOffset > Len(posText)
  /\ posResult = [line |-> 1, character |-> 2]

\* C8 as stated: converting the snake form of a PascalCase result back gives
\* the same PascalCase string.
C8_RoundTripStable == caseStep = 3 => caseValue = casePascal

\* in p, every capital letter that directly follows a capital letter is
\* directly followed by a lowercase letter
CapitalPairsSplit(p) ==
  \A i \in 2..Len(p) :
    (IsUpper(At(p, i - 1)) /\ IsUpper(At(p, i)))
      => (i < Len(p) /\ IsLower(At(p, i + 1)))

\* C8 amended: the round trip gives back P = toPascalCase(s) exactly when every
\* capital letter of P that directly follows a capital letter is directly
\* followed by a lowercase letter.
C8_RoundTripStableIffSplit ==
  caseStep = 3 => (caseValue = casePascal <=> CapitalPairsSplit(casePascal))

\* C8 witness: a PascalCase result of two segments, one of them a single
\* letter, that the round trip gives back
C8_Witness ==
  /\ caseStep = 3
  /\ Len(casePascal) >= 3
  /\ IsUpper(At(casePascal, 1)) /\ IsUpper(At(casePascal, 2))
  /\ caseValue = casePascal

\* the (lowercased) kind contains one of the words
Mentions(k, words) ==
  \E w \in words : \E a \in 0..(Len(k) - Len(w)) : SubSeq(k, a + 1, a + Len(w)) = w

TypeWords == {"struct", "class", "type"}
ConstantWords == {"constant"}
FunctionWords == {"function", "method"}
VariableWords ==
  {"variable", "parameter", "private member", "protected member", "namespace"}

\* C7: the first matching rule, in the order types, constants, functions,
\* variables, decides the result; no match gives null.
C7_FirstRuleWins ==
  inferDone =>
    LET k == toLowerCase(inferKind)
        snake == toLowerSnake(inferCurrent)
        pascal == toPascalCase(snake)
        isType == Mentions(k, TypeWords)
        isConstant == Mentions(k, ConstantWords)
        isFunction == Mentions(k, FunctionWords)
        isVariable == Mentions(k, VariableWords)
    IN  /\ isType => inferResult = pascal
        /\ (~isType /\ isConstant)
             => inferResult = (IF pascal = "" THEN "k" ELSE "k" \o pascal)
        /\ (~isType /\ ~isConstant /\ isFunction) => inferResult = pascal
        /\ (~isType /\ ~isConstant /\ ~isFunction /\ isVariable)
             => inferResult = snake
        /\ (~isType /\ ~isConstant /\ ~isFunction /\ ~isVariable)
             => inferResult = NULL

\* C7 witness: a kind with both "class" and "constant" gets the type rule's
\* result, without the k prefix
C7_Witness ==
  /\ inferDone
  /\ inferKind = "class constant"
  /\ inferCurrent = "max_size"
  /\ inferResult = "MaxSize"

\* C9: in one run, at most one rename request is issued for each pair
\* (kind, symbol), however many diagnostics report the pair.
C9_OneRequestPerPair ==
  \A i, j \in 1..Len(rnLog) :
    (/\ i < j
     /\ rnLog[i].diag.kind = rnLog[j].diag.kind
     /\ rnLog[i].diag.symbol = rnLog[j].diag.symbol)
      => ~(rnLog[i].requested /\ rnLog[j].requested)

\* C9 witness: a pair reported twice; the first report led to a request that
\* did not change the document, the second was passed over
C9_Witness ==
  /\ Len(rnLog) = 2
  /\ rnLog[1].diag.kind = rnLog[2].diag.kind
  /\ rnLog[1].diag.symbol = rnLog[2].diag.symbol
  /\ rnLog[1].requested /\ rnLog[1].outcome = "failed"
  /\ ~rnLog[2].requested

\* the kind matches none of the policy rules
NoRuleFor(kind) ==
  ~Mentions(toLowerCase(kind),
            TypeWords \cup ConstantWords \cup FunctionWords \cup VariableWords)

\* C10: a diagnostic with an empty symbol, a kind without a rule, or a target
\* equal to the current name gets no rename request and does not count as
\* applied; the loop goes on to the next diagnostic, through all of them.
C10_SkipAndContinue ==
  /\ \A i \in 1..Len(rnLog) :
       LET e == rnLog[i]
       IN  /\ e.diag = rnDiags[i]
           /\ (\/ e.diag.symbol = ""
               \/ NoRuleFor(e.diag.kind)
               \/ (e.looked /\ e.target = e.current))
                => (~e.requested /\ e.appliedAfter = e.appliedBefore)
  /\ rnPc = "loop" => Len(rnLog) = rnIdx - 1
  /\ (rnPc = "done" /\ rnDiags # <<>>) => Len(rnLog) = Len(rnDiags)
  /\ rnApplied = Cardinality({i \in 1..Len(rnLog) : rnLog[i].outcome = "applied"})

\* C10 witness: the first diagnostic's target equals its current name, and the
\* loop went on to rename the second
C10_Witness ==
  /\ rnPc = "done"
  /\ Len(rnLog) = 2
  /\ rnLog[1].looked /\ rnLog[1].target = rnLog[1].current /\ ~rnLog[1].requested
  /\ rnLog[2].requested /\ rnLog[2].outcome = "applied"
  /\ rnApplied = 1

\* C11: the headers that ensureStandardIncludes inserts are in ascending
\* alphabetical order and no header name is among them twice, whatever
\* patterns of the table match the text.
C11_SortedNoDuplicates ==
  \A i, j \in 1..Len(incNeeded) :
    i < j => (/\ incNeeded[i] # incNeeded[j]
              /\ lessOrEqual(incNeeded[i], incNeeded[j]))

\* the lines of IncLines that are include lines, by their delimiters
SystemIncludeLines == {"#include <vector>", " # include <ctring> // c"}
LocalIncludeLines == {"#include \"a.h\""}

\* the number of lines of ls that come before the insertion point of the
\* priority list
ReferenceIndex(ls) ==
  LET sys == {i \in 1..Len(ls) : ls[i] \in SystemIncludeLines}
      loc == {i \in 1..Len(ls) : ls[i] \in LocalIncludeLines}
  IN  IF sys # {} THEN CHOOSE i \in sys : \A j \in sys : j <= i
      ELSE IF loc # {} THEN (CHOOSE i \in loc : \A j \in loc : i <= j) - 1
      ELSE 0

HeadersInserted == incPc \in {"applyEdit", "done"}

\* C12: when a header is missing, the new text is the old lines, unchanged
\* and in their order, with the new include lines as one block after the
\* last system include line, else before the first local include line, else
\* at line 0; the document ends up with that text or, when the host refuses
\* the edit, as it was.
C12_OneBlockAtPriorityIndex ==
  HeadersInserted =>
    LET k == ReferenceIndex(incLines)
        block == newLinesFor(incNeeded)
    IN  /\ Len(block) >= 1
        /\ incNewText =
             joinLines(SubSeq(incLines, 1, k) \o block
                         \o SubSeq(incLines, k + 1, Len(incLines)), incEol)
        /\ incDoc \in {incText, incNewText}
        /\ incPc = "applyEdit" => incDoc = incText

\* C12 witness: a local include line above a system include line and a use
\* below them; the block went in after the system include line
C12_Witness ==
  /\ incPc = "done"
  /\ incLines = <<"#include \"a.h\"", "#include <vector>", "std::atol(s);">>
  /\ incInsertIndex = 2
  /\ incDoc = incNewText

StepOrder == <<"tidy", "includes", "format">>

\* the k-th event of a run in which the files are taken one after the other
\* and, for each, the three steps one after the other
SequentialEvent(k) ==
  Event(((k - 1) \div 6) + 1,
        StepOrder[(((k - 1) % 6) \div 2) + 1],
        IF (k - 1) % 2 = 0 THEN "start" ELSE "end")

\* C13: in a run of fixFilesGoogleStyle the steps of a file start in the
\* order clang-tidy, include insertion, clang-format, each after the one
\* before it has ended, and nothing starts for the next file before the
\* clang-format step of the file has ended.
C13_StrictlySequential ==
  /\ \A k \in 1..Len(wsLog) : wsLog[k] = SequentialEvent(k)
  /\ Len(wsLog) <= 6 * Len(wsFiles)

\* C13 witness: a run over two files that reached the done message
C13_Witness ==
  /\ wsPc = "done"
  /\ Len(wsFiles) = 2
  /\ wsLog[7] = Event(2, "tidy", "start")
  /\ wsLog[12] = Event(2, "format", "end")

\* a tool invocation of the run failed: it ended with a non-zero exit code
\* (which gives a warning) or the process could not be spawned
ToolFailed == wsWarnings # <<>> \/ wsPc = "hung"

Invoked(i, step) == \E k \in 1..Len(wsLog) : wsLog[k] = Event(i, step, "start")

\* the run got to its end: the done message after clang-tidy and
\* clang-format were invoked for every file, or the error message of the
\* command when ensureStandardIncludes threw
RunEnded ==
  \/ /\ wsPc = "done"
     /\ wsMessage = "done."
     /\ \A i \in 1..Len(wsFiles) : Invoked(i, "tidy") /\ Invoked(i, "format")
  \/ wsPc = "threw"

\* C14: a failed tool invocation (non-zero exit code or failure to spawn)
\* does not abort the run: the remaining files get their clang-tidy and
\* clang-format invocations and the done message is reached.
C14_FailureDoesNotAbort == ToolFailed ~> RunEnded

\* C15: the list of files that a workspace run iterates holds each file path
\* at most once, for any workspace folders (also folders whose paths are
\* prefixes of one another) and any file globs (also globs that match the
\* same file).
C15_EachFileOnce ==
  wcPc = "fix" =>
    \A i, j \in 1..Len(wcAllFiles) : wcAllFiles[i] = wcAllFiles[j] => i = j

\* no workspace folder is open, no editor is active, or the active document
\* is not a C/C++ file
NothingToWorkOn ==
  ~cmdHasFolder \/ cmdLanguage = "none" \/ cmdLanguage \notin {"c", "cpp"}

\* C16: each current-file command, started without a workspace folder,
\* without an active editor or on a document that is not C/C++, ends after
\* showing a message, without saving the document, running a tool or
\* applying an edit.
C16_CleanExit ==
  (NothingToWorkOn /\ cmdPc \notin {"idle", "start"}) =>
    /\ cmdPc \in {"returned", "threw"}
    /\ cmdMessage # ""
    /\ ~cmdSaved
    /\ cmdTools = <<>>
    /\ cmdEdits = 0

\* C17: every rename request of the loop is anchored at a range of the live
\* document whose text is the symbol of the diagnostic being processed, also
\* after earlier renames of the run have changed the document.
C17_AnchoredAtReportedSymbol ==
  \A i \in 1..Len(rnLog) :
    rnLog[i].requested => rnLog[i].anchor = rnLog[i].diag.symbol

====
